---- MODULE Spec2Model ----
(***************************************************************************)
(* Lead-capture API (server.js in its three deployment variants): the      *)
(* POST /api/lead handler, the Mongoose Lead schema it writes through, the *)
(* mail transport it notifies through, and process start-up.               *)
(*                                                                         *)
(* Variants of server.js                                                   *)
(*   "plain"    src/server/server.js:1-83     consent required, no mail    *)
(*   "sendgrid" src/server/server.js:84-254   no consent, SendGrid mail    *)
(*              (src/unnamed/part_000 is the same handler)                 *)
(*   "smtp"     src/unnamed/part_001          consent required, nodemailer *)
(***************************************************************************)
EXTENDS Integers, Sequences, FiniteSets

(***************************************************************************)
(* Bounds of the model.                                                    *)
(***************************************************************************)
\* number of POST /api/lead requests that may be in flight together
MaxReqs == 2
\* longest e-mail string enumerated exhaustively over EmailAlphabet
MaxEmailLen == 5

Reqs == 1..MaxReqs

(***************************************************************************)
(* JavaScript values of a parsed JSON body.  A value carries its type tag  *)
(* and the characters String(v) yields.                                    *)
(***************************************************************************)
Undefined == [t |-> "undefined", s |-> <<"u","n","d","e","f","i","n","e","d">>]
Null      == [t |-> "null",      s |-> <<"n","u","l","l">>]
True      == [t |-> "boolean",   s |-> <<"t","r","u","e">>]
False     == [t |-> "boolean",   s |-> <<"f","a","l","s","e">>]
Num0      == [t |-> "number",    s |-> <<"0">>]
Num1      == [t |-> "number",    s |-> <<"1">>]
Str(s)    == [t |-> "string",    s |-> s]

Rep(c, n) == [i \in 1..n |-> c]

\* !v is false: the JavaScript truthiness of a JSON value
Truthy(v) ==
  CASE v.t = "string"  -> v.s # <<>>
    [] v.t = "boolean" -> v = True
    [] v.t = "number"  -> v # Num0
    [] OTHER           -> FALSE

\* a || b
OrElse(a, b) == IF Truthy(a) THEN a ELSE b

\* String(v), as RegExp.prototype.test and template literals coerce
JsString(v) == v.s

\* \s of the regular expression, and what String.prototype.trim strips
Whitespace == {" ", "\t", "\n"}

\* String.prototype.trim: the span from the first to the last character that
\* is not whitespace
Trim(s) ==
  IF \A i \in 1..Len(s) : s[i] \in Whitespace
  THEN <<>>
  ELSE LET first == CHOOSE i \in 1..Len(s) :
                      s[i] \notin Whitespace /\ \A k \in 1..(i - 1) : s[k] \in Whitespace
           last  == CHOOSE j \in 1..Len(s) :
                      s[j] \notin Whitespace /\ \A k \in (j + 1)..Len(s) : s[k] \in Whitespace
       IN  SubSeq(s, first, last)

LowerChar(c) ==
  CASE c = "A" -> "a"
    [] c = "D" -> "d"
    [] c = "B" -> "b"
    [] OTHER   -> c

ToLowerCase(s) == [i \in 1..Len(s) |-> LowerChar(s[i])]

\* the pattern without its \s classes: /^[^@]+@[^@]+\.[^@]+$/
EmailRegexTestNoSpaceClass(s) ==
  \E i \in 2..(Len(s) - 3) :
     /\ s[i] = "@"
     /\ \A k \in 1..Len(s) : k # i => s[k] # "@"
     /\ \E j \in (i + 2)..(Len(s) - 1) : s[j] = "."

(***************************************************************************)
(* /^[^@\s]+@[^@\s]+\.[^@\s]+$/ : one '@' at position i with a non-empty   *)
(* local part, a '.' at position j strictly inside the part after the '@', *)
(* and no other '@' and no whitespace anywhere.                            *)
(***************************************************************************)
EmailRegexTest(s) ==
  \E i \in 2..(Len(s) - 3) :
     /\ s[i] = "@"
     /\ \A k \in 1..Len(s) : k # i => s[k] \notin ({"@"} \cup Whitespace)
     /\ \E j \in (i + 2)..(Len(s) - 1) : s[j] = "."

(***************************************************************************)
(* The handler's validation (the two early returns).                       *)
(***************************************************************************)
RequiresConsent(v) == v \in {"plain", "smtp"}
HasNotifier(v)     == v \in {"sendgrid", "smtp"}

\* the consent test written `!consent` instead of `consent !== true`
MissingRequiredTruthyConsent(v, b) ==
  \/ ~Truthy(b.name)
  \/ ~Truthy(b.email)
  \/ ~Truthy(b.message)
  \/ (RequiresConsent(v) /\ ~Truthy(b.consent))

MissingRequired(v, b) ==
  \/ ~Truthy(b.name)
  \/ ~Truthy(b.email)
  \/ ~Truthy(b.message)
  \/ (RequiresConsent(v) /\ b.consent # True)

InvalidEmail(b) == ~EmailRegexTest(JsString(b.email))

(***************************************************************************)
(* The Lead schema: casting and setters when the document is built,        *)
(* validators when it is saved.                                            *)
(***************************************************************************)
NameMaxLen    == 100
EmailMaxLen   == 200
PhoneMaxLen   == 50
CompanyMaxLen == 120
MessageMaxLen == 5000

\* SchemaString cast followed by the trim setter; undefined and null are kept
CastTrim(v) ==
  IF v.t \in {"undefined", "null"} THEN v ELSE Str(Trim(JsString(v)))

\* the same with the lowercase setter (email)
CastTrimLower(v) ==
  IF v.t \in {"undefined", "null"} THEN v ELSE Str(ToLowerCase(Trim(JsString(v))))

\* default: 'web' applies only to an undefined source
SourceDefault(v) == IF v.t = "undefined" THEN Str(<<"w","e","b">>) ELSE v

\* the object literal handed to Lead.create
CreateArg(v, b) ==
  IF v = "plain"
  THEN [name |-> b.name, email |-> b.email, phone |-> b.phone,
        company |-> b.company, message |-> b.message,
        consent |-> b.consent, source |-> b.source]
  ELSE [name |-> b.name, email |-> b.email,
        phone |-> OrElse(b.phone, Str(<<>>)),
        company |-> OrElse(b.company, Str(<<>>)),
        message |-> b.message,
        consent |-> IF v = "smtp" THEN True ELSE Undefined,
        source |-> OrElse(b.source, Str(<<"w","e","b">>))]

\* a document builder that hands every document the same _id
BuildDocSameId(v, arg, id) ==
  [id      |-> 1,
   name    |-> CastTrim(arg.name),
   email   |-> CastTrimLower(arg.email),
   phone   |-> CastTrim(arg.phone),
   company |-> CastTrim(arg.company),
   message |-> CastTrim(arg.message),
   consent |-> IF RequiresConsent(v) THEN arg.consent ELSE Undefined,
   source  |-> SourceDefault(CastTrim(arg.source))]

\* new Lead(arg): the document with its generated _id
BuildDoc(v, arg, id) ==
  [id      |-> id,
   name    |-> CastTrim(arg.name),
   email   |-> CastTrimLower(arg.email),
   phone   |-> CastTrim(arg.phone),
   company |-> CastTrim(arg.company),
   message |-> CastTrim(arg.message),
   consent |-> IF RequiresConsent(v) THEN arg.consent ELSE Undefined,
   source  |-> SourceDefault(CastTrim(arg.source))]

RequiredOk(f) == f.t = "string" /\ Len(f.s) > 0
MaxLenOk(f, n) == f.t = "string" => Len(f.s) <= n

\* a schema that lost its maxlength validators
SchemaValidNoMaxlength(v, d) ==
  /\ RequiredOk(d.name)
  /\ RequiredOk(d.email)
  /\ RequiredOk(d.message)
  /\ (RequiresConsent(v) => d.consent.t = "boolean")

\* doc.validate(): required and maxlength validators of LeadSchema
SchemaValid(v, d) ==
  /\ RequiredOk(d.name)    /\ MaxLenOk(d.name, NameMaxLen)
  /\ RequiredOk(d.email)   /\ MaxLenOk(d.email, EmailMaxLen)
  /\ MaxLenOk(d.phone, PhoneMaxLen)
  /\ MaxLenOk(d.company, CompanyMaxLen)
  /\ RequiredOk(d.message) /\ MaxLenOk(d.message, MessageMaxLen)
  /\ (RequiresConsent(v) => d.consent.t = "boolean")

(***************************************************************************)
(* Process configuration (process.env) and module-level singletons.        *)
(***************************************************************************)
Variants == {"plain", "sendgrid", "smtp"}

FullEnv ==
  [MONGODB_URI |-> TRUE, SENDGRID_API_KEY |-> TRUE, SMTP_HOST |-> TRUE,
   SMTP_PORT |-> "", SMTP_USER |-> TRUE, SMTP_PASS |-> TRUE]

\* environments the process may be started in (TRUE: the variable is set and
\* non-empty; SMTP_PORT is the text of the variable, "" when unset)
Envs ==
  {FullEnv,
   [FullEnv EXCEPT !.MONGODB_URI = FALSE],
   [FullEnv EXCEPT !.SENDGRID_API_KEY = FALSE, !.SMTP_HOST = FALSE,
                   !.SMTP_USER = FALSE, !.SMTP_PASS = FALSE],
   [FullEnv EXCEPT !.MONGODB_URI = FALSE, !.SENDGRID_API_KEY = FALSE,
                   !.SMTP_HOST = FALSE, !.SMTP_USER = FALSE, !.SMTP_PASS = FALSE],
   [FullEnv EXCEPT !.SMTP_PORT = "465"],
   [FullEnv EXCEPT !.SMTP_PORT = "0"],
   [FullEnv EXCEPT !.SMTP_PASS = FALSE]}

\* parseInt(process.env.SMTP_PORT || '587', 10)
DefaultSmtpPort == 587
ParsePort(p) ==
  CASE p = ""    -> DefaultSmtpPort
    [] p = "465" -> 465
    [] p = "0"   -> 0
    [] OTHER     -> DefaultSmtpPort

\* buildTransport() returns a transport (TRUE) or null (FALSE)
BuildTransport(e) ==
  ~(~e.SMTP_HOST \/ ParsePort(e.SMTP_PORT) = 0 \/ ~e.SMTP_USER \/ ~e.SMTP_PASS)

\* the handler's test before a send: `if (mailer)` / `if (SG_KEY)`
MailerOf(v, e) ==
  CASE v = "smtp"     -> BuildTransport(e)
    [] v = "sendgrid" -> e.SENDGRID_API_KEY
    [] OTHER          -> FALSE

(***************************************************************************)
(* State.                                                                  *)
(***************************************************************************)
VARIABLES
  variant,        \* which server.js is deployed
  env,            \* process.env
  mailer,         \* the mail singleton is configured (mailer / SG_KEY)
  proc,           \* "loaded", "connecting", "listening", "exited"
  connected,      \* mongoose.connect: "no", "yes", "failed"
  exitCode,       \* process.exit code, -1 while running
  nextId,         \* source of generated _id values
  store,          \* the leads collection, in insertion order
  pc,             \* per request: position in the handler
  hist,           \* per request: pipeline states entered so far
  body,           \* per request: req.body destructured
  doc,            \* per request: the document of its Lead.create call
  resp,           \* per request: the response sent
  createCalls,    \* per request: Lead.create invocations
  createOutcome,  \* per request: "none", "pending", "resolved", "rejected"
  sendCalls,      \* per request: sendMail / sgMail.send invocations
  sendOutcome     \* per request: "none", "pending", "resolved", "rejected"

procVars == <<variant, env, mailer, proc, connected, exitCode>>
reqVars  == <<pc, hist, body, doc, resp, createCalls, createOutcome,
              sendCalls, sendOutcome>>
vars     == <<procVars, nextId, store, reqVars>>

NoBody ==
  [name |-> Undefined, email |-> Undefined, phone |-> Undefined,
   company |-> Undefined, message |-> Undefined, consent |-> Undefined,
   source |-> Undefined]

NoDoc ==
  [id |-> 0, name |-> Undefined, email |-> Undefined, phone |-> Undefined,
   company |-> Undefined, message |-> Undefined, consent |-> Undefined,
   source |-> Undefined]

NoResp == [status |-> 0, ok |-> FALSE, error |-> "", id |-> 0, mailed |-> "absent"]

(***************************************************************************)
(* Start-up: start().                                                      *)
(***************************************************************************)
\* start() without its MONGODB_URI guard
StartCheckNoGuard ==
  /\ proc = "loaded"
  /\ proc' = "connecting"
  /\ UNCHANGED <<variant, env, mailer, connected, exitCode, nextId, store,
                 reqVars>>

\* if (!process.env.MONGODB_URI) throw ...; await mongoose.connect(...)
StartCheck ==
  /\ proc = "loaded"
  /\ IF ~env.MONGODB_URI
     THEN proc' = "exited" /\ exitCode' = 1
     ELSE proc' = "connecting" /\ exitCode' = exitCode
  /\ UNCHANGED <<variant, env, mailer, connected, nextId, store, reqVars>>

\* mongoose.connect resolved: app.listen(PORT)
ConnectOk ==
  /\ proc = "connecting"
  /\ connected' = "yes"
  /\ proc' = "listening"
  /\ UNCHANGED <<variant, env, mailer, exitCode, nextId, store, reqVars>>

\* mongoose.connect rejected: catch (e) { process.exit(1) }
ConnectFail ==
  /\ proc = "connecting"
  /\ connected' = "failed"
  /\ proc' = "exited"
  /\ exitCode' = 1
  /\ UNCHANGED <<variant, env, mailer, nextId, store, reqVars>>

(***************************************************************************)
(* POST /api/lead.  The handler runs from its entry to the first await,    *)
(* and from one await to the next, without interleaving.                   *)
(***************************************************************************)
Respond(status, ok, error, id, m) ==
  [status |-> status, ok |-> ok, error |-> error, id |-> id, mailed |-> m]

BadRequest(error) == Respond(400, FALSE, error, 0, "absent")
ServerError       == Respond(500, FALSE, "Server error", 0, "absent")

\* res.status(201).json({ ok: true, id: doc._id, mailed }); the plain
\* variant's body has no mailed member
Created(v, d, m) ==
  Respond(201, TRUE, "", d.id,
          IF HasNotifier(v) THEN (IF m THEN "true" ELSE "false") ELSE "absent")

\* a request with a body of B reaches the listening server; express.json has
\* parsed it
Submit(r, B) ==
  /\ proc = "listening"
  /\ pc[r] = "idle"
  /\ \A q \in Reqs : q < r => pc[q] # "idle"
  /\ pc' = [pc EXCEPT ![r] = "Validating"]
  /\ hist' = [hist EXCEPT ![r] = <<"Validating">>]
  /\ \E b \in B : body' = [body EXCEPT ![r] = b]
  /\ UNCHANGED <<procVars, nextId, store, doc, resp, createCalls,
                 createOutcome, sendCalls, sendOutcome>>

\* handler entry up to `await Lead.create(...)`
Validate(r) ==
  /\ pc[r] = "Validating"
  /\ IF MissingRequired(variant, body[r])
     THEN /\ resp' = [resp EXCEPT ![r] = BadRequest("Missing required fields")]
          /\ pc' = [pc EXCEPT ![r] = "Rejected"]
          /\ hist' = [hist EXCEPT ![r] = Append(@, "Rejected")]
          /\ UNCHANGED <<nextId, doc, createCalls, createOutcome>>
     ELSE IF InvalidEmail(body[r])
     THEN /\ resp' = [resp EXCEPT ![r] = BadRequest("Invalid email")]
          /\ pc' = [pc EXCEPT ![r] = "Rejected"]
          /\ hist' = [hist EXCEPT ![r] = Append(@, "Rejected")]
          /\ UNCHANGED <<nextId, doc, createCalls, createOutcome>>
     ELSE /\ doc' = [doc EXCEPT ![r] =
                       BuildDoc(variant, CreateArg(variant, body[r]), nextId)]
          /\ nextId' = nextId + 1
          /\ createCalls' = [createCalls EXCEPT ![r] = @ + 1]
          /\ createOutcome' = [createOutcome EXCEPT ![r] = "pending"]
          /\ pc' = [pc EXCEPT ![r] = "Persisting"]
          /\ hist' = [hist EXCEPT ![r] = Append(@, "Persisting")]
          /\ UNCHANGED resp
  /\ UNCHANGED <<procVars, store, body, sendCalls, sendOutcome>>

\* a handler that answers 201 before awaiting the send it started
CreateResolveFireAndForget(r) ==
  /\ pc[r] = "Persisting"
  /\ SchemaValid(variant, doc[r])
  /\ store' = Append(store, doc[r])
  /\ createOutcome' = [createOutcome EXCEPT ![r] = "resolved"]
  /\ resp' = [resp EXCEPT ![r] = Created(variant, doc[r], FALSE)]
  /\ IF HasNotifier(variant) /\ mailer
     THEN /\ sendCalls' = [sendCalls EXCEPT ![r] = @ + 1]
          /\ sendOutcome' = [sendOutcome EXCEPT ![r] = "pending"]
          /\ pc' = [pc EXCEPT ![r] = "Notifying"]
          /\ hist' = [hist EXCEPT ![r] = Append(@, "Notifying")]
     ELSE /\ pc' = [pc EXCEPT ![r] = "Done"]
          /\ hist' = [hist EXCEPT ![r] =
                        IF HasNotifier(variant)
                        THEN @ \o <<"Notifying", "Done">>
                        ELSE Append(@, "Done")]
          /\ UNCHANGED <<sendCalls, sendOutcome>>
  /\ UNCHANGED <<procVars, nextId, body, doc, createCalls>>

\* Lead.create resolved: the document passed its validators and was inserted;
\* the handler goes on to the notification block, up to its await or, with
\* nothing to send, to the response
CreateResolve(r) ==
  /\ pc[r] = "Persisting"
  /\ SchemaValid(variant, doc[r])
  /\ store' = Append(store, doc[r])
  /\ createOutcome' = [createOutcome EXCEPT ![r] = "resolved"]
  /\ IF HasNotifier(variant) /\ mailer
     THEN /\ sendCalls' = [sendCalls EXCEPT ![r] = @ + 1]
          /\ sendOutcome' = [sendOutcome EXCEPT ![r] = "pending"]
          /\ pc' = [pc EXCEPT ![r] = "Notifying"]
          /\ hist' = [hist EXCEPT ![r] = Append(@, "Notifying")]
          /\ UNCHANGED resp
     ELSE /\ resp' = [resp EXCEPT ![r] = Created(variant, doc[r], FALSE)]
          /\ pc' = [pc EXCEPT ![r] = "Done"]
          /\ hist' = [hist EXCEPT ![r] =
                        IF HasNotifier(variant)
                        THEN @ \o <<"Notifying", "Done">>
                        ELSE Append(@, "Done")]
          /\ UNCHANGED <<sendCalls, sendOutcome>>
  /\ UNCHANGED <<procVars, nextId, body, doc, createCalls>>

\* a handler that absorbs a failed Lead.create as it absorbs a failed send
CreateRejectAbsorbed(r) ==
  /\ pc[r] = "Persisting"
  /\ createOutcome' = [createOutcome EXCEPT ![r] = "rejected"]
  /\ resp' = [resp EXCEPT ![r] = Created(variant, doc[r], FALSE)]
  /\ pc' = [pc EXCEPT ![r] = "Done"]
  /\ hist' = [hist EXCEPT ![r] = Append(@, "Done")]
  /\ UNCHANGED <<procVars, nextId, store, body, doc, createCalls, sendCalls,
                 sendOutcome>>

\* Lead.create rejected (a validator failed, or the store could not be
\* written): the outer catch answers 500
CreateReject(r) ==
  /\ pc[r] = "Persisting"
  /\ createOutcome' = [createOutcome EXCEPT ![r] = "rejected"]
  /\ resp' = [resp EXCEPT ![r] = ServerError]
  /\ pc' = [pc EXCEPT ![r] = "Failed"]
  /\ hist' = [hist EXCEPT ![r] = Append(@, "Failed")]
  /\ UNCHANGED <<procVars, nextId, store, body, doc, createCalls, sendCalls,
                 sendOutcome>>

\* a handler whose `doc` is shared by all requests: the answer carries the
\* _id of the document built last
SendResolveSharedDoc(r) ==
  /\ pc[r] = "Notifying"
  /\ sendOutcome' = [sendOutcome EXCEPT ![r] = "resolved"]
  /\ resp' = [resp EXCEPT ![r] = Respond(201, TRUE, "", nextId - 1, "true")]
  /\ pc' = [pc EXCEPT ![r] = "Done"]
  /\ hist' = [hist EXCEPT ![r] = Append(@, "Done")]
  /\ UNCHANGED <<procVars, nextId, store, body, doc, createCalls,
                 createOutcome, sendCalls>>

\* the transport accepted the message: mailed = true
SendResolve(r) ==
  /\ pc[r] = "Notifying"
  /\ sendOutcome' = [sendOutcome EXCEPT ![r] = "resolved"]
  /\ resp' = [resp EXCEPT ![r] = Created(variant, doc[r], TRUE)]
  /\ pc' = [pc EXCEPT ![r] = "Done"]
  /\ hist' = [hist EXCEPT ![r] = Append(@, "Done")]
  /\ UNCHANGED <<procVars, nextId, store, body, doc, createCalls,
                 createOutcome, sendCalls>>

\* a send without its own try/catch: the rejection reaches the outer catch
SendRejectPropagates(r) ==
  /\ pc[r] = "Notifying"
  /\ sendOutcome' = [sendOutcome EXCEPT ![r] = "rejected"]
  /\ resp' = [resp EXCEPT ![r] = ServerError]
  /\ pc' = [pc EXCEPT ![r] = "Done"]
  /\ hist' = [hist EXCEPT ![r] = Append(@, "Done")]
  /\ UNCHANGED <<procVars, nextId, store, body, doc, createCalls,
                 createOutcome, sendCalls>>

\* a send that is tried again after a rejection
SendRejectRetries(r) ==
  /\ pc[r] = "Notifying"
  /\ sendCalls' = [sendCalls EXCEPT ![r] = @ + 1]
  /\ UNCHANGED <<procVars, nextId, store, pc, hist, body, doc, resp,
                 createCalls, createOutcome, sendOutcome>>

\* the transport rejected the message: the inner catch logs, mailed stays false
SendReject(r) ==
  /\ pc[r] = "Notifying"
  /\ sendOutcome' = [sendOutcome EXCEPT ![r] = "rejected"]
  /\ resp' = [resp EXCEPT ![r] = Created(variant, doc[r], FALSE)]
  /\ pc' = [pc EXCEPT ![r] = "Done"]
  /\ hist' = [hist EXCEPT ![r] = Append(@, "Done")]
  /\ UNCHANGED <<procVars, nextId, store, body, doc, createCalls,
                 createOutcome, sendCalls>>

(***************************************************************************)
(* Request bodies.                                                         *)
(***************************************************************************)
\* the example of the interface description: a valid submission
AdaBody ==
  [name |-> Str(<<"A","d","a">>), email |-> Str(<<"A","@","b",".","c">>),
   phone |-> Undefined, company |-> Undefined,
   message |-> Str(<<"H","i">>), consent |-> True, source |-> Undefined]

\* bodies of concurrent submissions: valid ones, one of each rejection, and
\* ones the handler accepts but the schema refuses
Bodies ==
  {AdaBody,
   [AdaBody EXCEPT !.name = Str(<<"B">>), !.phone = Str(<<"1">>),
                   !.source = Str(<<"a","d">>)],
   [AdaBody EXCEPT !.message = Undefined],
   [AdaBody EXCEPT !.consent = Str(<<"y","e","s">>)],
   [AdaBody EXCEPT !.email = Str(<<"a","d","a">>)],
   [AdaBody EXCEPT !.name = Str(Rep("n", NameMaxLen + 1))],
   [AdaBody EXCEPT !.name = Str(<<" ">>)]}

SeqsUpTo(S, n) == UNION {[1..k -> S] : k \in 0..n}

EmailAlphabet == {"a", "A", "@", ".", " "}

\* every e-mail string up to MaxEmailLen, longer ones around the pattern's
\* and the schema's limits, and non-string values
EmailVals ==
  {Str(s) : s \in SeqsUpTo(EmailAlphabet, MaxEmailLen)}
  \cup {Undefined, Null, Num0, Num1, True,
        Str(<<"a","@","b",".","c","\n">>),
        Str(<<"a",".","b","@","c",".","d",".","e">>),
        Str(<<" ","A","@","b",".","c"," ">>),
        Str(Rep("a", EmailMaxLen - 4) \o <<"@","b",".","c">>),
        Str(Rep("a", EmailMaxLen - 3) \o <<"@","b",".","c">>)}

FewEmails ==
  {Undefined, Str(<<>>), Str(<<"a","d","a">>), Str(<<"A","@","b",".","c">>)}

NameVals ==
  {Undefined, Null, False, Num0, Num1, Str(<<>>), Str(<<" ">>),
   Str(<<"A","d","a">>), Str(<<" ","A","\t">>),
   Str(Rep("n", NameMaxLen)), Str(Rep("n", NameMaxLen + 1)),
   Str(Rep("n", NameMaxLen) \o <<" ">>)}

MessageVals ==
  {Undefined, Null, Str(<<>>), Str(<<"\n">>), Str(<<"H","i","\n","<","&",">">>),
   Str(Rep("m", MessageMaxLen)), Str(Rep("m", MessageMaxLen + 1)),
   Str(<<" ">> \o Rep("m", MessageMaxLen))}

ConsentVals == {Undefined, Null, True, False, Num1, Str(<<"t","r","u","e">>)}

\* phone, company, source
OptionalVals ==
  {<<Undefined, Undefined, Undefined>>,
   <<Str(<<>>), Null, Str(<<>>)>>,
   <<Str(<<"0","7"," ">>), Str(<<"D","N">>), Str(<<" ">>)>>,
   <<Str(Rep("1", PhoneMaxLen + 1)), Undefined, Str(<<"a","d">>)>>,
   <<Str(Rep("1", PhoneMaxLen)), Str(Rep("c", CompanyMaxLen)), Num1>>,
   <<Num0, Str(Rep("c", CompanyMaxLen + 1)), Num1>>}

\* values short enough to be combined freely
Short(V) == {v \in V : Len(v.s) <= 9}

\* bodies of a single submission: every e-mail with the other fields valid,
\* every combination of short values of the required fields, and every
\* name, message and optional field around the schema's limits
WideBodies ==
  {[AdaBody EXCEPT !.email = e] : e \in EmailVals}
  \cup
  {[AdaBody EXCEPT !.name = n, !.email = e, !.message = m, !.consent = c] :
     n \in Short(NameVals), e \in FewEmails, m \in Short(MessageVals),
     c \in ConsentVals}
  \cup
  {[AdaBody EXCEPT !.name = n, !.phone = o[1], !.company = o[2],
                   !.source = o[3], !.consent = c] :
     n \in NameVals, o \in OptionalVals, c \in {True, Num1}}
  \cup
  {[AdaBody EXCEPT !.message = m, !.consent = c] :
     m \in MessageVals, c \in {True, Undefined}}

(***************************************************************************)
(* Specifications.                                                         *)
(***************************************************************************)
\* the state once the module has been evaluated, before start() runs
Init ==
  /\ variant \in Variants
  /\ env \in Envs
  /\ mailer = MailerOf(variant, env)
  /\ proc = "loaded"
  /\ connected = "no"
  /\ exitCode = -1
  /\ nextId = 1
  /\ store = <<>>
  /\ pc = [r \in Reqs |-> "idle"]
  /\ hist = [r \in Reqs |-> <<>>]
  /\ body = [r \in Reqs |-> NoBody]
  /\ doc = [r \in Reqs |-> NoDoc]
  /\ resp = [r \in Reqs |-> NoResp]
  /\ createCalls = [r \in Reqs |-> 0]
  /\ createOutcome = [r \in Reqs |-> "none"]
  /\ sendCalls = [r \in Reqs |-> 0]
  /\ sendOutcome = [r \in Reqs |-> "none"]

\* concurrent submissions
Next ==
  \/ StartCheck
  \/ ConnectOk
  \/ ConnectFail
  \/ \E r \in Reqs : Submit(r, Bodies)
  \/ \E r \in Reqs : Validate(r)
  \/ \E r \in Reqs : CreateResolve(r)
  \/ \E r \in Reqs : CreateReject(r)
  \/ \E r \in Reqs : SendResolve(r)
  \/ \E r \in Reqs : SendReject(r)

Spec == Init /\ [][Next]_vars

\* one submission, over the wide input domain
NextOne ==
  \/ StartCheck
  \/ ConnectOk
  \/ ConnectFail
  \/ Submit(1, WideBodies)
  \/ Validate(1)
  \/ CreateResolve(1)
  \/ CreateReject(1)
  \/ SendResolve(1)
  \/ SendReject(1)

SpecOne == Init /\ [][NextOne]_vars

(***************************************************************************)
(* Vocabulary of the properties, stated on the input and on what can be    *)
(* observed of a submission.                                               *)
(***************************************************************************)
\* the handler has answered request r
Answered(r) == resp[r] # NoResp

\* the handler has decided on request r's input
Decided(r) == pc[r] \notin {"idle", "Validating"}

\* the leads stored with the _id of r's document
LeadsOf(r) == {i \in DOMAIN store : store[i].id = doc[r].id}

\* nothing of r reached the store or the transport
NoSideEffect(r) ==
  /\ createCalls[r] = 0 /\ createOutcome[r] = "none"
  /\ sendCalls[r] = 0 /\ sendOutcome[r] = "none"
  /\ doc[r] = NoDoc
  /\ \A i \in DOMAIN store : store[i].id # doc[r].id

\* a field that is absent (undefined, null) or the empty string
AbsentOrEmpty(f) == f.t \in {"undefined", "null"} \/ (f.t = "string" /\ Len(f.s) = 0)

\* a field that carries a value: a non-empty string, or a non-string value
\* other than 0 and false
Present(f) ==
  \/ (f.t = "string" /\ Len(f.s) > 0)
  \/ (f.t = "number" /\ f.s # <<"0">>)
  \/ (f.t = "boolean" /\ f.s = <<"t","r","u","e">>)

IsBooleanTrue(f) == f.t = "boolean" /\ f.s = <<"t","r","u","e">>

\* local@domain.tld with no '@' and no whitespace in any of the three parts
MatchesPattern(s) ==
  \E i \in 1..Len(s), j \in 1..Len(s) :
     /\ 1 < i /\ i + 1 < j /\ j < Len(s)
     /\ s[i] = "@" /\ s[j] = "."
     /\ \A k \in (1..Len(s)) \ {i, j} : s[k] # "@" /\ s[k] \notin {" ", "\t", "\n"}

LacksAt(s) == \A i \in 1..Len(s) : s[i] # "@"
LacksDotAfterAt(s) ==
  \A i \in 1..Len(s) : s[i] = "@" => \A j \in (i + 1)..Len(s) : s[j] # "."

(***************************************************************************)
(* C1.  When the Lead.create call of a submission fails, the response is   *)
(* 500 {ok:false, error:"Server error"}, the transport is not invoked for  *)
(* that submission, nothing of it is in the store, and its response is     *)
(* never a 201.                                                            *)
(***************************************************************************)
C1_StoreFailureIs500 ==
  \A r \in Reqs :
     createOutcome[r] = "rejected" =>
        /\ resp[r] = [status |-> 500, ok |-> FALSE, error |-> "Server error",
                      id |-> 0, mailed |-> "absent"]
        /\ sendCalls[r] = 0 /\ sendOutcome[r] = "none"
        /\ LeadsOf(r) = {}
        /\ pc[r] = "Failed"

\* the store refuses a write whose document is valid, with a mailer configured
C1_Witness ==
  \E r \in Reqs :
     /\ createOutcome[r] = "rejected"
     /\ SchemaValid(variant, doc[r])
     /\ HasNotifier(variant) /\ mailer
     /\ Answered(r)

(***************************************************************************)
(* C2.  In the variants with a notification block: once Lead.create has    *)
(* resolved, the answer is 201 whatever the notification does; a rejected  *)
(* send, or no configured transport, gives mailed:false and never a 500;   *)
(* the lead written for the submission stays in the store exactly once;    *)
(* mailed is true exactly when a send was attempted and resolved.          *)
(***************************************************************************)
C2_NotifyNeverChangesResult ==
  \A r \in Reqs :
     (HasNotifier(variant) /\ createOutcome[r] = "resolved") =>
        /\ Cardinality(LeadsOf(r)) = 1
        /\ \A i \in LeadsOf(r) : store[i] = doc[r]
        /\ Answered(r) =>
             /\ resp[r].status = 201 /\ resp[r].ok /\ resp[r].error = ""
             /\ resp[r].id = doc[r].id
             /\ resp[r].mailed \in {"true", "false"}
             /\ (resp[r].mailed = "true") <=>
                   (sendCalls[r] = 1 /\ sendOutcome[r] = "resolved")
        /\ sendOutcome[r] = "rejected" => (Answered(r) /\ resp[r].mailed = "false")
        /\ ~mailer => (Answered(r) /\ resp[r].mailed = "false" /\ sendCalls[r] = 0)

\* the transport rejected the send of a stored lead
C2_Witness ==
  \E r \in Reqs :
     /\ createOutcome[r] = "resolved"
     /\ sendCalls[r] = 1 /\ sendOutcome[r] = "rejected"
     /\ resp[r].status = 201 /\ resp[r].mailed = "false"
     /\ Cardinality(LeadsOf(r)) = 1

(***************************************************************************)
(* C3.  An input whose name, email or message is absent or empty, or, in a *)
(* variant that requires consent, whose consent is not the boolean true,   *)
(* is answered 400 {ok:false, error:"Missing required fields"}, also when  *)
(* its email is malformed, and reaches neither the store nor the           *)
(* transport.                                                              *)
(***************************************************************************)
C3_MissingFieldRejected ==
  \A r \in Reqs :
     (/\ Decided(r)
      /\ \/ AbsentOrEmpty(body[r].name)
         \/ AbsentOrEmpty(body[r].email)
         \/ AbsentOrEmpty(body[r].message)
         \/ (RequiresConsent(variant) /\ ~IsBooleanTrue(body[r].consent)))
     =>
        /\ pc[r] = "Rejected"
        /\ resp[r] = [status |-> 400, ok |-> FALSE,
                      error |-> "Missing required fields", id |-> 0,
                      mailed |-> "absent"]
        /\ NoSideEffect(r)

\* a truthy consent that is not the boolean true, with a malformed e-mail
C3_Witness ==
  \E r \in Reqs :
     /\ pc[r] = "Rejected"
     /\ RequiresConsent(variant)
     /\ Present(body[r].name) /\ Present(body[r].message)
     /\ body[r].consent \in {Num1, Str(<<"t","r","u","e">>)}
     /\ body[r].email.t = "string" /\ Len(body[r].email.s) > 0
     /\ ~MatchesPattern(body[r].email.s)

(***************************************************************************)
(* C4.  An input whose required fields are present (and whose consent is   *)
(* true where it is required) but whose email lacks an '@', lacks a '.'    *)
(* after the '@', or otherwise does not match the pattern, is answered     *)
(* 400 {ok:false, error:"Invalid email"} and reaches neither the store nor *)
(* the transport.                                                          *)
(***************************************************************************)
C4_InvalidEmailRejected ==
  \A r \in Reqs :
     (/\ Decided(r)
      /\ Present(body[r].name) /\ Present(body[r].email)
      /\ Present(body[r].message)
      /\ (RequiresConsent(variant) => IsBooleanTrue(body[r].consent))
      /\ \/ LacksAt(body[r].email.s)
         \/ LacksDotAfterAt(body[r].email.s)
         \/ ~MatchesPattern(body[r].email.s))
     =>
        /\ pc[r] = "Rejected"
        /\ resp[r] = [status |-> 400, ok |-> FALSE, error |-> "Invalid email",
                      id |-> 0, mailed |-> "absent"]
        /\ NoSideEffect(r)

\* an e-mail with an '@' and a later '.', refused for its whitespace
C4_Witness ==
  \E r \in Reqs :
     /\ pc[r] = "Rejected"
     /\ resp[r].error = "Invalid email"
     /\ body[r].email.t = "string"
     /\ ~LacksAt(body[r].email.s) /\ ~LacksDotAfterAt(body[r].email.s)
     /\ \E i \in 1..Len(body[r].email.s) : body[r].email.s[i] = " "

(***************************************************************************)
(* C5.  Every submission whose Lead.create resolved has exactly one lead   *)
(* in the store, the store holds no other lead, no two leads (nor two      *)
(* submissions, identical or not) share an id, and the id of the 201       *)
(* response is the id of the lead stored for that submission.              *)
(***************************************************************************)
C5_OneLeadUniqueId ==
  /\ \A i, j \in DOMAIN store : i # j => store[i].id # store[j].id
  /\ Len(store) = Cardinality({r \in Reqs : createOutcome[r] = "resolved"})
  /\ \A r, q \in Reqs :
        (r # q /\ createCalls[r] > 0 /\ createCalls[q] > 0) => doc[r].id # doc[q].id
  /\ \A r \in Reqs :
        /\ createOutcome[r] = "resolved" =>
              /\ createCalls[r] = 1
              /\ Cardinality(LeadsOf(r)) = 1
        /\ resp[r].status = 201 =>
              /\ createOutcome[r] = "resolved"
              /\ \E i \in DOMAIN store : store[i] = doc[r] /\ store[i].id = resp[r].id

\* the same valid body submitted twice, both stored and answered
C5_Witness ==
  \E r, q \in Reqs :
     /\ r # q /\ body[r] = body[q]
     /\ resp[r].status = 201 /\ resp[q].status = 201
     /\ resp[r].id # resp[q].id
     /\ Len(store) = 2

(***************************************************************************)
(* C6.  A write that the handler let through but that breaks a length or   *)
(* required constraint of the schema (name over 100 or message over 5000   *)
(* characters once trimmed, e-mail over 200, phone over 50, company over   *)
(* 120, a required field empty once trimmed) fails: no lead is stored for  *)
(* it, nothing is sent, and the answer is 500 {ok:false, error:"Server     *)
(* error"}.  No stored lead is a shortened form of such an input.          *)
(***************************************************************************)
IsSpace(c) == c \in {" ", "\t", "\n"}

LeadingSpaces(s) ==
  CHOOSE n \in 0..Len(s) :
     (\A k \in 1..n : IsSpace(s[k])) /\ (n < Len(s) => ~IsSpace(s[n + 1]))

TrailingSpaces(s) ==
  CHOOSE n \in 0..Len(s) :
     (\A k \in (Len(s) - n + 1)..Len(s) : IsSpace(s[k]))
     /\ (n < Len(s) => ~IsSpace(s[Len(s) - n]))

TrimmedLen(f) ==
  IF LeadingSpaces(f.s) = Len(f.s) THEN 0
  ELSE Len(f.s) - LeadingSpaces(f.s) - TrailingSpaces(f.s)

BreaksConstraint(b) ==
  \/ TrimmedLen(b.name) > 100 \/ TrimmedLen(b.name) = 0
  \/ TrimmedLen(b.email) > 200 \/ TrimmedLen(b.email) = 0
  \/ TrimmedLen(b.message) > 5000 \/ TrimmedLen(b.message) = 0
  \/ (Present(b.phone) /\ TrimmedLen(b.phone) > 50)
  \/ (Present(b.company) /\ TrimmedLen(b.company) > 120)

C6_SchemaViolationIs500 ==
  /\ \A r \in Reqs :
        (createCalls[r] > 0 /\ BreaksConstraint(body[r])) =>
           /\ LeadsOf(r) = {}
           /\ sendCalls[r] = 0
           /\ createOutcome[r] \in {"pending", "rejected"}
           /\ Answered(r) =>
                 resp[r] = [status |-> 500, ok |-> FALSE,
                            error |-> "Server error", id |-> 0,
                            mailed |-> "absent"]
  /\ \A i \in DOMAIN store :
        /\ Len(store[i].name.s) \in 1..100
        /\ Len(store[i].email.s) \in 1..200
        /\ Len(store[i].message.s) \in 1..5000
        /\ store[i].phone.t = "string" => Len(store[i].phone.s) <= 50
        /\ store[i].company.t = "string" => Len(store[i].company.s) <= 120

\* a message of 5001 characters passed validation and was answered 500
C6_Witness ==
  \E r \in Reqs :
     /\ createCalls[r] = 1
     /\ Len(body[r].message.s) = 5001
     /\ TrimmedLen(body[r].message) = 5001
     /\ createOutcome[r] = "rejected"
     /\ resp[r].status = 500

(***************************************************************************)
(* C7.  The process listens only with MONGODB_URI set and the store        *)
(* connection established; without the URI, or when the connection fails,  *)
(* it exits with code 1 and never listens; no submission is handled        *)
(* before the connection is established; missing mail credentials never    *)
(* make it exit, they only leave the transport unused.                     *)
(***************************************************************************)
MailCredentials(v, e) ==
  CASE v = "smtp"     -> e.SMTP_HOST /\ e.SMTP_USER /\ e.SMTP_PASS
    [] v = "sendgrid" -> e.SENDGRID_API_KEY
    [] OTHER          -> FALSE

C7_NoListenWithoutStore ==
  /\ proc = "listening" => (env.MONGODB_URI /\ connected = "yes")
  /\ ~env.MONGODB_URI =>
        /\ proc \in {"loaded", "exited"}
        /\ connected = "no"
  /\ connected = "failed" => proc = "exited"
  /\ proc = "exited" =>
        /\ exitCode = 1
        /\ ~env.MONGODB_URI \/ connected = "failed"
  /\ proc # "exited" => exitCode = -1
  /\ \A r \in Reqs :
        pc[r] # "idle" => (connected = "yes" /\ proc = "listening")
  /\ ~MailCredentials(variant, env) =>
        /\ ~mailer
        /\ \A r \in Reqs : sendCalls[r] = 0 /\ sendOutcome[r] = "none"

\* no URI and no mail credentials: the process has exited with code 1
C7_Witness ==
  /\ ~env.MONGODB_URI
  /\ ~MailCredentials(variant, env)
  /\ proc = "exited" /\ exitCode = 1
  /\ \A r \in Reqs : pc[r] = "idle"

(***************************************************************************)
(* C8.  A submission passes through Validating, Persisting, Notifying and  *)
(* Done in that order, leaving only by Rejected after Validating or by     *)
(* Failed after Persisting, where it stays; Lead.create is invoked only    *)
(* for an input that passed validation, a send is attempted only after     *)
(* Lead.create resolved, and the 201 is sent only once no send is pending. *)
(* (The plain variant has no notification block: Persisting, then Done.)   *)
(***************************************************************************)
IsPrefix(p, s) == Len(p) <= Len(s) /\ SubSeq(s, 1, Len(p)) = p

PipelinePaths ==
  {<<"Validating", "Rejected">>,
   <<"Validating", "Persisting", "Failed">>,
   IF variant = "plain"
   THEN <<"Validating", "Persisting", "Done">>
   ELSE <<"Validating", "Persisting", "Notifying", "Done">>}

PassesValidation(b) ==
  /\ Present(b.name) /\ Present(b.email) /\ Present(b.message)
  /\ RequiresConsent(variant) => IsBooleanTrue(b.consent)
  /\ MatchesPattern(b.email.s)

C8_PipelineOrder ==
  \A r \in Reqs :
     /\ \E p \in PipelinePaths : IsPrefix(hist[r], p)
     /\ pc[r] = (IF hist[r] = <<>> THEN "idle" ELSE hist[r][Len(hist[r])])
     /\ pc[r] \in {"Rejected", "Failed", "Done"} <=> Answered(r)
     /\ createCalls[r] > 0 => PassesValidation(body[r])
     /\ pc[r] = "Persisting" <=> createOutcome[r] = "pending"
     /\ sendCalls[r] > 0 => (createOutcome[r] = "resolved" /\ LeadsOf(r) # {})
     /\ pc[r] = "Notifying" <=> sendOutcome[r] = "pending"
     /\ resp[r].status = 201 =>
           (createOutcome[r] = "resolved" /\ sendOutcome[r] # "pending")
     /\ resp[r].status = 400 => createCalls[r] = 0
     /\ resp[r].status = 500 => sendCalls[r] = 0

\* a submission that went through all four states
C8_Witness ==
  \E r \in Reqs :
     /\ hist[r] = <<"Validating", "Persisting", "Notifying", "Done">>
     /\ sendOutcome[r] = "resolved"
     /\ resp[r].status = 201

(***************************************************************************)
(* C9.  Per submission Lead.create is invoked at most once and the         *)
(* transport's send at most once, whatever either call did; with a         *)
(* configured transport and a resolved Lead.create exactly one send is     *)
(* made.                                                                   *)
(***************************************************************************)
C9_NoRetries ==
  \A r \in Reqs :
     /\ createCalls[r] <= 1
     /\ sendCalls[r] <= 1
     /\ Cardinality(LeadsOf(r)) <= 1
     /\ (createOutcome[r] \in {"none", "rejected"}) => sendCalls[r] = 0
     /\ (HasNotifier(variant) /\ mailer /\ createOutcome[r] = "resolved")
           => sendCalls[r] = 1
     /\ ~mailer => sendCalls[r] = 0

\* both calls of a submission failed or were refused once, and it is over
C9_Witness ==
  \E r, q \in Reqs :
     /\ createOutcome[r] = "rejected" /\ createCalls[r] = 1 /\ pc[r] = "Failed"
     /\ sendOutcome[q] = "rejected" /\ sendCalls[q] = 1 /\ pc[q] = "Done"

(***************************************************************************)
(* C10.  Submissions in flight together do not affect one another: a step  *)
(* of one request changes nothing of another request nor any lead already  *)
(* stored, and the response and the stored lead of a request are what its  *)
(* own input, the outcome of its own Lead.create (with the id it gave) and *)
(* the outcome of its own send determine.                                  *)
(***************************************************************************)
Local(r) ==
  <<pc[r], hist[r], body[r], doc[r], resp[r], createCalls[r],
    createOutcome[r], sendCalls[r], sendOutcome[r]>>

OwnResponse(r) ==
  CASE createOutcome[r] = "rejected" ->
         [status |-> 500, ok |-> FALSE, error |-> "Server error", id |-> 0,
          mailed |-> "absent"]
    [] createOutcome[r] = "resolved" ->
         [status |-> 201, ok |-> TRUE, error |-> "", id |-> doc[r].id,
          mailed |-> IF variant = "plain" THEN "absent"
                     ELSE IF sendOutcome[r] = "resolved" THEN "true"
                     ELSE "false"]
    [] OTHER ->
         [status |-> 400, ok |-> FALSE,
          error |-> IF Present(body[r].name) /\ Present(body[r].email)
                       /\ Present(body[r].message)
                       /\ (RequiresConsent(variant)
                             => IsBooleanTrue(body[r].consent))
                    THEN "Invalid email" ELSE "Missing required fields",
          id |-> 0, mailed |-> "absent"]

C10_Isolated ==
  \A r \in Reqs :
     /\ Answered(r) => resp[r] = OwnResponse(r)
     /\ \A i \in LeadsOf(r) :
           store[i] = BuildDoc(variant, CreateArg(variant, body[r]), doc[r].id)
     /\ (createOutcome[r] = "resolved") <=> (LeadsOf(r) # {})

C10_StepsAreLocal ==
  /\ \A r, q \in Reqs :
        (r # q /\ Local(r)' # Local(r)) => Local(q)' = Local(q)
  /\ \A i \in DOMAIN store : i \in DOMAIN store' /\ store'[i] = store[i]

C10_NoInterference == [](C10_Isolated) /\ [][C10_StepsAreLocal]_vars

\* two identical submissions in flight together with different fates
C10_Witness ==
  \E r, q \in Reqs :
     /\ body[r] = body[q]
     /\ pc[r] = "Failed" /\ resp[r].status = 500
     /\ pc[q] = "Done" /\ resp[q].status = 201 /\ resp[q].mailed = "true"
     /\ doc[r].id < doc[q].id

(***************************************************************************)
(* C11.  Every stored lead is the normalized form of the input it was      *)
(* accepted from: name and message trimmed, email trimmed, lower-cased and *)
(* still matching the e-mail pattern, an omitted phone or company stored   *)
(* as the empty string, an omitted source stored as "web".                 *)
(***************************************************************************)
Trimmed(s) == SubSeq(s, LeadingSpaces(s) + 1, Len(s) - TrailingSpaces(s))

Lowered(s) ==
  [i \in 1..Len(s) |->
     IF s[i] = "A" THEN "a" ELSE IF s[i] = "B" THEN "b"
     ELSE IF s[i] = "D" THEN "d" ELSE s[i]]

Omitted(f) == f.t = "undefined"

EmptyString == [t |-> "string", s |-> <<>>]

NameEmailMessageNormalized(b, d) ==
  /\ d.name = [t |-> "string", s |-> Trimmed(b.name.s)]
  /\ d.message = [t |-> "string", s |-> Trimmed(b.message.s)]
  /\ d.email = [t |-> "string", s |-> Lowered(Trimmed(b.email.s))]
  /\ MatchesPattern(d.email.s)

OptionalsDefaulted(b, d) ==
  /\ Omitted(b.phone) => d.phone = EmptyString
  /\ Omitted(b.company) => d.company = EmptyString

SourceDefaulted(b, d) ==
  Omitted(b.source) => d.source = [t |-> "string", s |-> <<"w","e","b">>]

C11_StoredLeadNormalized ==
  \A r \in Reqs : \A i \in LeadsOf(r) :
     /\ NameEmailMessageNormalized(body[r], store[i])
     /\ OptionalsDefaulted(body[r], store[i])
     /\ SourceDefaulted(body[r], store[i])

\* C11 without the plain variant's optional fields: what every variant
\* stores of name, email, message and source, and what the variants that
\* write `phone || ''` and `company || ''` store of phone and company
C11_NormalizedExceptPlainOptionals ==
  \A r \in Reqs : \A i \in LeadsOf(r) :
     /\ NameEmailMessageNormalized(body[r], store[i])
     /\ SourceDefaulted(body[r], store[i])
     /\ variant # "plain" => OptionalsDefaulted(body[r], store[i])
     /\ variant = "plain" =>
           (store[i].phone = CastTrim(body[r].phone)
            /\ store[i].company = CastTrim(body[r].company))

====
